---- MODULE Spec2Model ----
(***************************************************************************)
(* art-bridge: the relaxation-and-ranking engine in front of the KOPIS     *)
(* listing API.  QueryAnalyzer, ScoreCalculator and SmartSearchService are *)
(* modelled from the TypeScript sources; KopisService is the collaborator  *)
(* the engine calls.                                                        *)
(*                                                                         *)
(* JavaScript values are tagged records: Undef, Num(n), Str(s).  A date    *)
(* string "YYYYMMDD" is Str(n) with n the eight-digit number it spells;    *)
(* Letters is a string that starts with a letter (parseInt gives NaN) and  *)
(* EmptyStr is "".  Region codes are Str(n) too, n their digits.           *)
(* Dates are evaluated without daylight-saving shifts (Asia/Seoul).        *)
(***************************************************************************)
EXTENDS Integers, Sequences, FiniteSets, TLC

VARIABLES
  toolName,   \* search(toolName, args): the search mode
  args,       \* search(toolName, args): the caller's parameters
  pc,         \* where search() stands: start, L1..L4, done, thrown, idle
  analysis,   \* const analysis
  minCount,   \* const minCount
  allEvents,  \* the allEvents accumulator of the level that is running
  gi,         \* genres of the running level's loop already fetched
  level,      \* the last completed level: its number, events and relaxed
  result,     \* the SmartSearchResult returned
  err,        \* the exception that left search(), if any
  calls,      \* the KopisService calls issued so far, in order
  l4failed,   \* genres whose level-4 call failed and was caught
  l4seen,     \* ids returned by the level-4 calls that succeeded
  reached,    \* levels that completed with at least minCount distinct ids
  sc,         \* one scoreAndSort call: its inputs and its output
  loc,        \* one KopisService.searchEventsByLocation call
  apiKey,     \* the module-level apiKey of the HTTP server
  posts,      \* the POST /sse requests in flight and their upstream calls
  inv,        \* two search() invocations on one SmartSearchService
  world       \* what the upstream answers to the calls of those two

vars == <<toolName, args, pc, analysis, minCount, allEvents, gi, level,
          result, err, calls, l4failed, l4seen, reached, sc, loc, apiKey,
          posts, inv, world>>

\* the state of one search() and of one scoreAndSort call
searchVars == <<toolName, args, pc, analysis, minCount, allEvents, gi, level,
                result, err, calls, l4failed, l4seen, reached, sc>>

----------------------------------------------------------------------------
(* JavaScript values *)

Undef == [k |-> "undefined"]

Num(n) == [k |-> "number", v |-> n]

Str(s) == [k |-> "string", v |-> s]

Letters == [k |-> "letters"]

EmptyStr == [k |-> "empty"]

IsString(x) == x.k \in {"string", "letters", "empty"}

\* JavaScript truthiness: undefined, 0 and "" are falsy
Truthy(x) ==
  /\ x.k # "undefined"
  /\ x.k # "empty"
  /\ ~(x.k = "number" /\ x.v = 0)

\* a || b
OrElse(a, b) == IF Truthy(a) THEN a ELSE b

----------------------------------------------------------------------------
(* Calendar arithmetic of the JavaScript Date constructor *)

IsLeap(y) == (y % 4 = 0 /\ y % 100 # 0) \/ y % 400 = 0

\* month0 is zero-based, 0..11
DaysInMonth(y, month0) ==
  IF month0 = 1 THEN (IF IsLeap(y) THEN 29 ELSE 28)
  ELSE IF month0 \in {3, 5, 8, 10} THEN 30 ELSE 31

RECURSIVE DaysBeforeMonth(_, _)
DaysBeforeMonth(y, month0) ==
  IF month0 = 0 THEN 0
  ELSE DaysBeforeMonth(y, month0 - 1) + DaysInMonth(y, month0 - 1)

DaysBeforeYear(y) ==
  365 * (y - 1) + ((y - 1) \div 4) - ((y - 1) \div 100) + ((y - 1) \div 400)

\* new Date(y, month0, d) as a day number; month and day overflow carry over
DateDay(y, month0, d) ==
  LET yy == y + (month0 \div 12)
      mm == month0 % 12
  IN DaysBeforeYear(yy) + DaysBeforeMonth(yy, mm) + d - 1

\* new Date(parseInt(s.substring(0,4)), parseInt(s.substring(4,6)) - 1,
\*          parseInt(s.substring(6,8))) for a string value s
IsNaNDate(s) == s.k # "string"

ParseDay(s) == DateDay(s.v \div 10000, ((s.v \div 100) % 100) - 1, s.v % 100)

----------------------------------------------------------------------------
(* QueryAnalyzer *)

ByLocation == "search_events_by_location"

FreeEvents == "filter_free_events"

Trending == "get_trending_performances"

ToolNames == {ByLocation, FreeEvents, Trending}

\* args.startDate.substring is not a function unless startDate is a string
hasSpecificDateRangeThrows(a) ==
  /\ Truthy(a.startDate) /\ Truthy(a.endDate)
  /\ (~IsString(a.startDate) \/ ~IsString(a.endDate))

hasSpecificDateRange(a) ==
  IF ~Truthy(a.startDate) \/ ~Truthy(a.endDate) THEN FALSE
  ELSE IF IsNaNDate(a.startDate) \/ IsNaNDate(a.endDate) THEN FALSE
  ELSE ParseDay(a.endDate) - ParseDay(a.startDate) <= 7

extractKeywords(tool, a) ==
  [isFree |-> tool = FreeEvents,
   isTrending |-> tool = Trending,
   hasDateKeyword |-> hasSpecificDateRange(a),
   hasCountKeyword |-> a.limit.k # "undefined"]

\* the narrow-date rule tried before the mode rules
determinePriorities_dateFirst(tool, keywords) ==
  IF keywords.hasDateKeyword
    THEN <<"date", "count", "genre", "location">>
  ELSE IF keywords.isFree
    THEN <<"price", "date", "genre", "location">>
  ELSE IF keywords.isTrending
    THEN <<"popularity", "count", "genre", "date">>
  ELSE <<"date", "location", "genre", "count">>

determinePriorities(tool, keywords) ==
  IF keywords.isFree
    THEN <<"price", "date", "genre", "location">>
  ELSE IF keywords.isTrending
    THEN <<"popularity", "count", "genre", "date">>
  ELSE IF keywords.hasDateKeyword
    THEN <<"date", "count", "genre", "location">>
  ELSE <<"date", "location", "genre", "count">>

parseParameters(a) ==
  [genreCode |-> a.genreCode,
   startDate |-> a.startDate,
   endDate |-> a.endDate,
   sidoCode |-> a.sidoCode,
   gugunCode |-> a.gugunCode,
   minCount |-> OrElse(a.limit, Num(3))]

analyze(tool, a) ==
  LET keywords == extractKeywords(tool, a)
  IN [priorities |-> determinePriorities(tool, keywords),
      keywords |-> keywords,
      parsedParams |-> parseParameters(a)]

NoAnalysis == [priorities |-> <<>>]

NoError == [kind |-> "none"]

\* const minCount = analysis.parsedParams.minCount || 3
minCountOf(an) == OrElse(an.parsedParams.minCount, Num(3)).v

----------------------------------------------------------------------------
(* Static code tables *)

\* Object.keys(GENRE_CODES), in table order
GENRE_CODES ==
  <<"AAAA", "BBBC", "BBBE", "CCCA", "CCCC", "CCCD", "EEEA", "EEEB", "GGGA">>

\* the display name of a genre code; an unknown code names itself
getGenreName(code) ==
  CASE code = "AAAA" -> "theater"
    [] code = "BBBC" -> "dance(western/korean dance)"
    [] code = "BBBE" -> "popular dance"
    [] code = "CCCA" -> "western music(classic)"
    [] code = "CCCC" -> "korean music(gugak)"
    [] code = "CCCD" -> "popular music"
    [] code = "EEEA" -> "complex"
    [] code = "EEEB" -> "circus/magic"
    [] code = "GGGA" -> "musical"
    [] OTHER -> code

\* a.includes(b) on the genre names that occur; "dance" is the short name
\* upstream may send for either dance genre
NameIncludes(a, b) ==
  \/ a = b
  \/ b = "dance" /\ a \in {"dance(western/korean dance)", "popular dance"}

\* region codes are numbers: two digits name a province (sido), four a
\* district (gugun); extractSidoCode keeps the leading two digits
extractSidoCode(code) ==
  IF ~Truthy(code) THEN Undef
  ELSE IF code.v >= 100 THEN Str(code.v \div 100) ELSE code

----------------------------------------------------------------------------
(* KopisService.getTrendingPerformances: the popularity it attaches *)

Max(a, b) == IF a >= b THEN a ELSE b

Min(a, b) == IF a <= b THEN a ELSE b

\* index is the position in the box-office list, daysUntilEnd the days left
rankedPopularity(index, daysUntilEnd) ==
  LET rank == index + 1
      baseScore == Max(0, 100 - (rank - 1) * 2)
      urgencyBonus == IF daysUntilEnd <= 14 THEN 10 ELSE 0
  IN baseScore + urgencyBonus

----------------------------------------------------------------------------
(* ScoreCalculator *)

\* price text: marker = contains the free word, literalZero = the text is
\* "0" or "0won", tokens = the digit runs of the text in order
PriceText(marker, literalZero, tokens) ==
  [marker |-> marker, literalZero |-> literalZero, tokens |-> tokens]

NoPriceText == PriceText(FALSE, FALSE, <<>>)

Infinity == 999999999

RECURSIVE SeqMin(_)
SeqMin(s) ==
  IF Len(s) = 1 THEN s[1] ELSE Min(s[1], SeqMin(Tail(s)))

extractMinPrice(priceStr) ==
  IF priceStr.tokens = <<>> THEN Infinity ELSE SeqMin(priceStr.tokens)

calculatePriceScore(event) ==
  LET priceStr == event.pcseguidance
      isFree == priceStr.marker \/ priceStr.literalZero
      minPrice == extractMinPrice(priceStr)
  IN IF isFree THEN 100
     ELSE IF minPrice = Infinity THEN 0
     ELSE IF minPrice = 0 THEN 100
     ELSE IF minPrice <= 5000 THEN 80
     ELSE IF minPrice <= 10000 THEN 60
     ELSE IF minPrice <= 20000 THEN 40
     ELSE IF minPrice <= 50000 THEN 20
     ELSE 10

\* order of the strings compared with <= and >=: "" sorts first, digit
\* strings of equal length sort as numbers, text starting with a letter last
StrOrd(s) ==
  IF s.k \in {"undefined", "empty"} THEN 0 - 1
  ELSE IF s.k = "letters" THEN 100000000
  ELSE s.v

Abs(n) == IF n < 0 THEN 0 - n ELSE n

\* NaN when either string does not parse
calculateDateDiffIsNaN(date1, date2) ==
  IsNaNDate(date1) \/ IsNaNDate(date2)

calculateDateDiff(date1, date2) == Abs(ParseDay(date2) - ParseDay(date1))

\* targetDate is Undef or [start, end]
calculateDateScore(event, targetDate) ==
  IF targetDate.k = "undefined" THEN 50
  ELSE
    LET eventStart == event.prfpdfrom
        eventEnd == event.prfpdto
        targetStart == targetDate.start
        targetEnd == targetDate.end
    IN IF StrOrd(eventStart) >= StrOrd(targetStart)
          /\ StrOrd(eventEnd) <= StrOrd(targetEnd) THEN 100
       ELSE IF StrOrd(eventStart) <= StrOrd(targetEnd)
          /\ StrOrd(eventEnd) >= StrOrd(targetStart) THEN 70
       ELSE IF calculateDateDiffIsNaN(targetStart, eventStart) THEN 0
       ELSE LET diff == calculateDateDiff(targetStart, eventStart)
            IN IF diff <= 7 THEN 50
               ELSE IF diff <= 14 THEN 30
               ELSE IF diff <= 30 THEN 10
               ELSE 0

similarPairs ==
  {{"theater", "musical"},
   {"western music(classic)", "korean music(gugak)"},
   {"dance(western/korean dance)", "popular dance"},
   {"complex", "circus/magic"}}

\* event.genrenm is a name, or "" when the event has none
calculateGenreScore(event, targetGenreCode) ==
  IF ~Truthy(targetGenreCode) THEN 50
  ELSE IF event.genrenm = "" THEN 0
  ELSE
    LET eventGenreName == event.genrenm
        targetGenreName == getGenreName(targetGenreCode.v)
    IN IF eventGenreName = targetGenreName THEN 100
       ELSE IF NameIncludes(eventGenreName, targetGenreName)
               \/ NameIncludes(targetGenreName, eventGenreName) THEN 90
       ELSE IF \E pair \in similarPairs :
                 eventGenreName \in pair /\ targetGenreName \in pair THEN 60
       ELSE 0

\* event.area is the set of region codes whose short name the area text
\* contains; a target code of four digits is a district
calculateLocationScore(event, targetLocation) ==
  IF ~Truthy(targetLocation) THEN 50
  ELSE IF targetLocation.v >= 1000 /\ targetLocation.v \in event.area THEN 100
  ELSE IF (IF targetLocation.v >= 100 THEN targetLocation.v \div 100
           ELSE targetLocation.v) \in event.area THEN 60
  ELSE 0

\* weights[dim] || 0, in tenths; a later slot overwrites an earlier one of
\* the same name
RECURSIVE slotWeight(_, _, _)
slotWeight(priorities, dim, i) ==
  IF i = 0 THEN 0
  ELSE IF priorities[i] = dim THEN 5 - i
  ELSE slotWeight(priorities, dim, i - 1)

\* the slots first..fourth; a scheme of three slots has no fourth, and
\* [priorities.fourth || 'count'] names the fourth slot then
slotsOf(priorities) ==
  IF Len(priorities) = 3 THEN Append(priorities, "count") ELSE priorities

\* the fourth slot's weight is lost
weightOf_noFourth(priorities, dim) == slotWeight(slotsOf(priorities), dim, 3)

weightOf(priorities, dim) == slotWeight(slotsOf(priorities), dim, 4)

\* totalScore10 is ten times totalScore
calculateScore(event, priorities, criteria) ==
  LET breakdown ==
        [priceScore |-> calculatePriceScore(event),
         dateScore |-> calculateDateScore(event, criteria.targetDate),
         genreScore |-> calculateGenreScore(event, criteria.targetGenre),
         locationScore |->
           calculateLocationScore(event, criteria.targetLocation),
         popularityScore |-> OrElse(event.popularityScore, Num(50)).v]
  IN [event |-> event,
      totalScore10 |->
        breakdown.priceScore * weightOf(priorities, "price")
        + breakdown.dateScore * weightOf(priorities, "date")
        + breakdown.genreScore * weightOf(priorities, "genre")
        + breakdown.locationScore * weightOf(priorities, "location")
        + breakdown.popularityScore * weightOf(priorities, "popularity"),
      breakdown |-> breakdown]

\* Array.prototype.sort with (a, b) => b.totalScore - a.totalScore: a stable
\* insertion of each score behind the scores that are not smaller
RECURSIVE insertScore(_, _)
insertScore(sorted, s) ==
  IF sorted = <<>> THEN <<s>>
  ELSE IF sorted[1].totalScore10 >= s.totalScore10
    THEN <<sorted[1]>> \o insertScore(Tail(sorted), s)
  ELSE <<s>> \o sorted

RECURSIVE sortScores(_)
sortScores(scored) ==
  IF scored = <<>> THEN <<>>
  ELSE insertScore(sortScores(SubSeq(scored, 1, Len(scored) - 1)),
                   scored[Len(scored)])

\* the scored list is returned as it was mapped
scoreAndSort_unsorted(events, priorities, criteria) ==
  [i \in 1..Len(events) |-> calculateScore(events[i], priorities, criteria)]

scoreAndSort(events, priorities, criteria) ==
  sortScores([i \in 1..Len(events) |->
                calculateScore(events[i], priorities, criteria)])

----------------------------------------------------------------------------
(* Array helpers *)

\* Array.prototype.slice(0, n)
SliceTo(s, n) ==
  SubSeq(s, 1, IF n < 0 THEN Max(Len(s) + n, 0) ELSE Min(n, Len(s)))

IdsOf(events) == {events[i].mt20id : i \in 1..Len(events)}

----------------------------------------------------------------------------
(* KopisService, as the engine sees it: each method turns the raw list the *)
(* upstream sent into the list it resolves to                              *)

validLimitOf(limit) == Min(Max(limit.v, 1), 50)

isFreeEvent(e) == e.pcseguidance.marker \/ e.pcseguidance.literalZero

RECURSIVE insertByPrice(_, _)
insertByPrice(sorted, e) ==
  IF sorted = <<>> THEN <<e>>
  ELSE IF extractMinPrice(sorted[1].pcseguidance)
            <= extractMinPrice(e.pcseguidance)
    THEN <<sorted[1]>> \o insertByPrice(Tail(sorted), e)
  ELSE <<e>> \o sorted

RECURSIVE sortByPrice(_)
sortByPrice(events) ==
  IF events = <<>> THEN <<>>
  ELSE insertByPrice(sortByPrice(SubSeq(events, 1, Len(events) - 1)),
                     events[Len(events)])

\* events.filter(e => isFree(e)) when wanted, the others when not
RECURSIVE filterByFree(_, _)
filterByFree(events, wanted) ==
  IF events = <<>> THEN <<>>
  ELSE (IF isFreeEvent(events[1]) = wanted THEN <<events[1]>> ELSE <<>>)
       \o filterByFree(Tail(events), wanted)

filterFreeEvents(events, limit) ==
  LET validLimit == validLimitOf(limit)
      freeEvents == filterByFree(events, TRUE)
      paidEvents == sortByPrice(filterByFree(events, FALSE))
  IN IF Len(freeEvents) >= 10 THEN SliceTo(freeEvents, validLimit)
     ELSE IF Len(freeEvents) > 0
       THEN freeEvents
            \o SliceTo(paidEvents, Min(10, validLimit) - Len(freeEvents))
     ELSE SliceTo(paidEvents, Min(10, validLimit))

RECURSIVE insertByPopularity(_, _)
insertByPopularity(sorted, e) ==
  IF sorted = <<>> THEN <<e>>
  ELSE IF sorted[1].popularityScore.v >= e.popularityScore.v
    THEN <<sorted[1]>> \o insertByPopularity(Tail(sorted), e)
  ELSE <<e>> \o sorted

RECURSIVE sortByPopularity(_)
sortByPopularity(events) ==
  IF events = <<>> THEN <<>>
  ELSE insertByPopularity(sortByPopularity(SubSeq(events, 1, Len(events) - 1)),
                          events[Len(events)])

getTrendingPerformances(boxofficeList, limit) ==
  LET rankedEvents ==
        [i \in 1..Len(boxofficeList) |->
           [boxofficeList[i] EXCEPT !.popularityScore =
              Num(rankedPopularity(i - 1, boxofficeList[i].daysUntilEnd))]]
  IN SliceTo(sortByPopularity(rankedEvents), validLimitOf(limit))

\* what kopisService resolves to for one call, given the raw upstream list
serviceResult(tool, query, raw) ==
  IF tool = FreeEvents THEN filterFreeEvents(raw, query.limit)
  ELSE IF tool = Trending THEN getTrendingPerformances(raw, query.limit)
  ELSE raw

----------------------------------------------------------------------------
(* SmartSearchService *)

getRelatedGenres(genreCode) ==
  IF genreCode.k # "string" THEN <<genreCode>>
  ELSE CASE genreCode.v = "AAAA" -> <<Str("AAAA"), Str("GGGA")>>
         [] genreCode.v = "GGGA" -> <<Str("GGGA"), Str("AAAA")>>
         [] genreCode.v = "CCCA" -> <<Str("CCCA"), Str("CCCC")>>
         [] genreCode.v = "CCCC" -> <<Str("CCCC"), Str("CCCA")>>
         [] genreCode.v = "BBBC" -> <<Str("BBBC"), Str("BBBE")>>
         [] genreCode.v = "BBBE" -> <<Str("BBBE"), Str("BBBC")>>
         [] genreCode.v = "CCCD" -> <<Str("CCCD")>>
         [] genreCode.v = "EEEA" -> <<Str("EEEA"), Str("EEEB")>>
         [] genreCode.v = "EEEB" -> <<Str("EEEB"), Str("EEEA")>>
         [] OTHER -> <<genreCode>>

RECURSIVE deduplicateEvents(_)
deduplicateEvents(events) ==
  IF events = <<>> THEN <<>>
  ELSE LET front == deduplicateEvents(SubSeq(events, 1, Len(events) - 1))
           last == events[Len(events)]
       IN IF last.mt20id \in IdsOf(front) THEN front ELSE Append(front, last)

\* the trending branch hands the caller's dates on
fetchByTool_datesKept(tool, a) ==
  IF tool = FreeEvents
    THEN [tool |-> tool, genreCode |-> a.genreCode, startDate |-> Undef,
          endDate |-> Undef, sidoCode |-> a.sidoCode, gugunCode |-> Undef,
          limit |-> OrElse(a.limit, Num(50))]
  ELSE [tool |-> tool, genreCode |-> a.genreCode, startDate |-> a.startDate,
        endDate |-> a.endDate,
        sidoCode |-> IF tool = Trending THEN Undef ELSE a.sidoCode,
        gugunCode |-> IF tool = Trending THEN Undef ELSE a.gugunCode,
        limit |-> OrElse(a.limit, Num(50))]

\* the parameter object handed to kopisService by fetchByTool
fetchByTool(tool, a) ==
  IF tool = FreeEvents
    THEN [tool |-> tool, genreCode |-> a.genreCode, startDate |-> Undef,
          endDate |-> Undef, sidoCode |-> a.sidoCode, gugunCode |-> Undef,
          limit |-> OrElse(a.limit, Num(50))]
  ELSE IF tool = Trending
    THEN [tool |-> tool, genreCode |-> a.genreCode, startDate |-> Undef,
          endDate |-> Undef, sidoCode |-> Undef, gugunCode |-> Undef,
          limit |-> OrElse(a.limit, Num(50))]
  ELSE [tool |-> tool, genreCode |-> a.genreCode, startDate |-> a.startDate,
        endDate |-> a.endDate, sidoCode |-> a.sidoCode,
        gugunCode |-> a.gugunCode, limit |-> OrElse(a.limit, Num(50))]

\* an args object with the fields the caller did not set
NoArgs ==
  [genreCode |-> Undef, startDate |-> Undef, endDate |-> Undef,
   sidoCode |-> Undef, gugunCode |-> Undef, limit |-> Undef]

\* executeLevel2: the genres it fetches, in order
level2Genres(tool, a) ==
  IF tool = FreeEvents THEN <<a.genreCode>>
  ELSE IF tool = Trending /\ ~Truthy(a.genreCode) THEN <<a.genreCode>>
  ELSE SliceTo(getRelatedGenres(a.genreCode), 2)

\* executeLevel2: the call it issues for one genre
level2Query(tool, a, genre) ==
  IF tool = FreeEvents
    THEN fetchByTool(tool, [NoArgs EXCEPT !.genreCode = a.genreCode,
                              !.sidoCode = extractSidoCode(a.sidoCode),
                              !.limit = OrElse(a.limit, Num(50))])
  ELSE IF tool = Trending /\ ~Truthy(a.genreCode) THEN fetchByTool(tool, a)
  ELSE IF tool = Trending
    THEN fetchByTool(tool, [NoArgs EXCEPT !.genreCode = genre,
                              !.limit = OrElse(a.limit, Num(50))])
  ELSE fetchByTool(tool, [a EXCEPT !.genreCode = genre])

level2Dedup(tool, a) ==
  ~(tool = FreeEvents \/ (tool = Trending /\ ~Truthy(a.genreCode)))

level2Relaxed(tool, a) ==
  IF tool = FreeEvents THEN <<[axis |-> "location", to |-> "sido"]>>
  ELSE IF tool = Trending /\ ~Truthy(a.genreCode) THEN <<>>
  ELSE <<[axis |-> "genre", of |-> a.genreCode, to |-> "one similar"]>>

level3Genres(tool, a) ==
  IF tool \in {FreeEvents, Trending} /\ ~Truthy(a.genreCode)
    THEN <<a.genreCode>>
  ELSE getRelatedGenres(a.genreCode)

\* a trending search without genre asks level 3 for 20 events by default
level3Query_limit20(tool, a, genre) ==
  IF tool = FreeEvents /\ ~Truthy(a.genreCode)
    THEN fetchByTool(tool, [NoArgs EXCEPT !.genreCode = a.genreCode,
                              !.sidoCode = extractSidoCode(a.sidoCode),
                              !.limit = OrElse(a.limit, Num(50))])
  ELSE IF tool = FreeEvents
    THEN fetchByTool(tool, [NoArgs EXCEPT !.genreCode = genre,
                              !.sidoCode = extractSidoCode(a.sidoCode),
                              !.limit = OrElse(a.limit, Num(20))])
  ELSE IF tool = Trending
    THEN fetchByTool(tool, [NoArgs EXCEPT !.genreCode = genre,
                              !.limit = OrElse(a.limit, Num(20))])
  ELSE fetchByTool(tool,
         [a EXCEPT !.genreCode = genre,
                   !.sidoCode =
                      extractSidoCode(OrElse(a.gugunCode, a.sidoCode)),
                   !.gugunCode = Undef])

level3Query(tool, a, genre) ==
  IF tool = FreeEvents /\ ~Truthy(a.genreCode)
    THEN fetchByTool(tool, [NoArgs EXCEPT !.genreCode = a.genreCode,
                              !.sidoCode = extractSidoCode(a.sidoCode),
                              !.limit = OrElse(a.limit, Num(50))])
  ELSE IF tool = FreeEvents
    THEN fetchByTool(tool, [NoArgs EXCEPT !.genreCode = genre,
                              !.sidoCode = extractSidoCode(a.sidoCode),
                              !.limit = OrElse(a.limit, Num(20))])
  ELSE IF tool = Trending /\ ~Truthy(a.genreCode) THEN fetchByTool(tool, a)
  ELSE IF tool = Trending
    THEN fetchByTool(tool, [NoArgs EXCEPT !.genreCode = genre,
                              !.limit = OrElse(a.limit, Num(20))])
  ELSE fetchByTool(tool,
         [a EXCEPT !.genreCode = genre,
                   !.sidoCode =
                      extractSidoCode(OrElse(a.gugunCode, a.sidoCode)),
                   !.gugunCode = Undef])

level3Dedup(tool, a) ==
  ~(tool \in {FreeEvents, Trending} /\ ~Truthy(a.genreCode))

level3Relaxed(tool, a) ==
  IF tool = FreeEvents /\ ~Truthy(a.genreCode)
    THEN <<[axis |-> "location", to |-> "sido"]>>
  ELSE IF tool = FreeEvents
    THEN <<[axis |-> "location", to |-> "sido"],
           [axis |-> "genre", of |-> a.genreCode, to |-> "similar"]>>
  ELSE IF tool = Trending /\ ~Truthy(a.genreCode)
    THEN <<[axis |-> "date", to |-> "30 days"]>>
  ELSE IF tool = Trending
    THEN <<[axis |-> "genre", of |-> a.genreCode, to |-> "similar"],
           [axis |-> "date", to |-> "30 days"]>>
  ELSE <<[axis |-> "location", to |-> "sido"],
         [axis |-> "genre", of |-> a.genreCode, to |-> "similar"]>>

\* the year of a day number, searched around a year that is close
YearOfDay(n, near) ==
  CHOOSE y \in (near - 1)..(near + 2) :
    DaysBeforeYear(y) <= n /\ n < DaysBeforeYear(y + 1)

\* formatDate(date): the digits of YYYYMMDD for a day number
formatDate(n, near) ==
  LET y == YearOfDay(n, near)
      inYear == n - DaysBeforeYear(y)
      month0 == CHOOSE m \in 0..11 :
                  /\ DaysBeforeMonth(y, m) <= inYear
                  /\ inYear < DaysBeforeMonth(y, m) + DaysInMonth(y, m)
  IN Str(y * 10000 + (month0 + 1) * 100 + (inYear - DaysBeforeMonth(y, month0) + 1))

\* new Date() at the time of the search
Today == Str(20261103)

\* today.setMonth(today.getMonth() + 1)
oneMonthLater(today) ==
  DateDay(today.v \div 10000, ((today.v \div 100) % 100) - 1 + 1, today.v % 100)

\* executeLevel4: args.endDate.substring fails unless endDate is a string
level4Throws(a) == Truthy(a.endDate) /\ ~IsString(a.endDate)

level4StartDate == formatDate(ParseDay(Today), Today.v \div 10000)

\* const oneMonthLater = new Date(today), a month on: as a day number
level4OneMonthLater == oneMonthLater(Today)

\* this.formatDate(oneMonthLater)
level4DefaultEnd == formatDate(level4OneMonthLater, Today.v \div 10000)

level4EndDate(a) ==
  IF Truthy(a.endDate) /\ ~IsNaNDate(a.endDate)
     /\ ParseDay(a.endDate) > level4OneMonthLater
    THEN a.endDate
  ELSE level4DefaultEnd

level4SidoCode(a) == extractSidoCode(OrElse(a.gugunCode, a.sidoCode))

\* executeLevel4: the call it issues for one genre of GENRE_CODES
level4Query(tool, a, genre) ==
  IF tool = FreeEvents
    THEN [tool |-> tool, genreCode |-> Str(genre), startDate |-> Undef,
          endDate |-> Undef, sidoCode |-> level4SidoCode(a),
          gugunCode |-> Undef, limit |-> Num(10)]
  ELSE IF tool = Trending
    THEN [tool |-> tool, genreCode |-> Str(genre), startDate |-> Undef,
          endDate |-> Undef, sidoCode |-> Undef, gugunCode |-> Undef,
          limit |-> Num(10)]
  ELSE [tool |-> tool, genreCode |-> Str(genre),
        startDate |-> level4StartDate, endDate |-> level4EndDate(a),
        sidoCode |-> level4SidoCode(a), gugunCode |-> Undef,
        limit |-> Num(10)]

level4Relaxed(a) ==
  <<[axis |-> "location", to |-> level4SidoCode(a)],
    [axis |-> "genre", to |-> "all"],
    [axis |-> "date", from |-> level4StartDate, to |-> level4EndDate(a)]>>

\* the failed call of a genre is issued again
level4AfterError_retry(done) == [pc |-> "L4", gi |-> done]

\* no catch: the error of one genre leaves executeLevel4
level4AfterError_noCatch(done) == [pc |-> "thrown", gi |-> done]

\* executeLevel4, catch (error): the loop goes on with the next genre
level4AfterError(done) == [pc |-> "L4", gi |-> done + 1]

\* levels 1 to 3 as one table: genres fetched, call per genre, whether the
\* merged list is de-duplicated, and the relaxed-conditions log
levelGenres(n, tool, a) ==
  IF n = 1 THEN <<a.genreCode>>
  ELSE IF n = 2 THEN level2Genres(tool, a)
  ELSE level3Genres(tool, a)

levelQuery(n, tool, a, genre) ==
  IF n = 1 THEN fetchByTool(tool, a)
  ELSE IF n = 2 THEN level2Query(tool, a, genre)
  ELSE level3Query(tool, a, genre)

levelDedup(n, tool, a) ==
  IF n = 1 THEN FALSE
  ELSE IF n = 2 THEN level2Dedup(tool, a)
  ELSE level3Dedup(tool, a)

levelRelaxed(n, tool, a) ==
  IF n = 1 THEN <<>>
  ELSE IF n = 2 THEN level2Relaxed(tool, a)
  ELSE level3Relaxed(tool, a)

generateMessage(lvl, relaxed, count) ==
  IF lvl = 1 THEN [kind |-> "found", level |-> 1, count |-> count,
                   conditions |-> <<>>]
  ELSE [kind |-> "found", level |-> lvl, count |-> count,
        conditions |-> relaxed]

generateFailureMessage(min, foundCount) ==
  [kind |-> "failure", minCount |-> min, foundCount |-> foundCount]

\* the events are listed as they were fetched, the scores as ranked
formatResult_eventsAsFetched(events, lvl, relaxed, an, min) ==
  LET scored ==
        scoreAndSort(events, an.priorities,
          [targetDate |->
             IF Truthy(an.parsedParams.startDate)
               THEN [k |-> "range", start |-> an.parsedParams.startDate,
                     end |-> OrElse(an.parsedParams.endDate,
                                    an.parsedParams.startDate)]
             ELSE Undef,
           targetLocation |->
             OrElse(an.parsedParams.gugunCode, an.parsedParams.sidoCode),
           targetGenre |-> an.parsedParams.genreCode,
           isFree |-> an.keywords.isFree])
      top == SliceTo(scored, min)
      topEvents == SliceTo(events, min)
  IN [events |-> topEvents,
      level |-> lvl,
      relaxedConditions |-> relaxed,
      message |-> generateMessage(lvl, relaxed, Len(topEvents)),
      scores |-> top]

formatResult(events, lvl, relaxed, an, min) ==
  LET scored ==
        scoreAndSort(events, an.priorities,
          [targetDate |->
             IF Truthy(an.parsedParams.startDate)
               THEN [k |-> "range", start |-> an.parsedParams.startDate,
                     end |-> OrElse(an.parsedParams.endDate,
                                    an.parsedParams.startDate)]
             ELSE Undef,
           targetLocation |->
             OrElse(an.parsedParams.gugunCode, an.parsedParams.sidoCode),
           targetGenre |-> an.parsedParams.genreCode,
           isFree |-> an.keywords.isFree])
      top == SliceTo(scored, min)
      topEvents == [i \in 1..Len(top) |-> top[i].event]
  IN [events |-> topEvents,
      level |-> lvl,
      relaxedConditions |-> relaxed,
      message |-> generateMessage(lvl, relaxed, Len(topEvents)),
      scores |-> top]

\* the failure result without the events level 4 did find
failureResult_noEvents(level4, min) ==
  [events |-> <<>>,
   level |-> 0,
   relaxedConditions |-> level4.relaxed,
   message |-> generateFailureMessage(min, 0),
   scores |-> <<>>]

\* search(): the result when level 4 stays below minCount; it has no scores
failureResult(level4, min) ==
  [events |-> level4.events,
   level |-> 0,
   relaxedConditions |-> level4.relaxed,
   message |-> generateFailureMessage(min, Len(level4.events)),
   scores |-> <<>>]

----------------------------------------------------------------------------
(* Bounds and input domains *)

\* longest raw list one upstream call returns
MaxResp == 2

\* longest merged list of one level
MaxMerged == 2

\* level-4 calls that may fail within one search
MaxFail == 1

\* events scored by one scoreAndSort call
MaxScoreList == 2

\* events whose detail one filter_free_events request of the server fetches
MaxDetails == 1

\* longest list the upstream returns per genre to two concurrent searches
MaxPairResp == 1

\* deepest box-office position of a scored event
MaxRank == 1

RawEvent(id, price, from, to, genrenm, area, days) ==
  [mt20id |-> id, pcseguidance |-> price, prfpdfrom |-> from,
   prfpdto |-> to, genrenm |-> genrenm, area |-> area,
   popularityScore |-> Undef, daysUntilEnd |-> days]

\* the events the upstream knows
Catalogue ==
  {RawEvent(1, PriceText(TRUE, FALSE, <<>>), Str(20261105), Str(20261106),
            "theater", {11, 1111}, 3),
   RawEvent(2, PriceText(FALSE, FALSE, <<8000>>), Str(20261120),
            Str(20261231), "musical", {11}, 58)}

\* the raw lists an upstream call may return when room events still fit
Responses(room) ==
  UNION {[1..n -> Catalogue] : n \in 0..Min(MaxResp, room)}

GenreInputs == {Undef, Str("AAAA"), Str("ZZZZ")}

LimitInputs == {Undef, Num(0 - 1), Num(1), Num(2)}

RegionInputs == {<<Undef, Undef>>, <<Str(11), Str(1111)>>}

DateInputs ==
  {<<Undef, Undef>>, <<Str(20261105), Str(20261110)>>,
   <<Letters, Str(20261231)>>, <<Undef, Num(20261110)>>}

MakeArgs(genre, dates, region, limit) ==
  [genreCode |-> genre, startDate |-> dates[1], endDate |-> dates[2],
   sidoCode |-> region[1], gugunCode |-> region[2], limit |-> limit]

\* requests that vary the limit, and requests that vary dates and region
ArgsSearch ==
  {MakeArgs(g, <<Str(20261105), Str(20261110)>>, <<Str(11), Str(1111)>>, l) :
     g \in GenreInputs, l \in LimitInputs}
  \cup {MakeArgs(Str("AAAA"), d, r, Num(2)) :
          d \in DateInputs, r \in RegionInputs}

NoLevel == [n |-> 0, events |-> <<>>, relaxed |-> <<>>]

NoResult == [level |-> 0 - 1]

NoScoreCall ==
  [events |-> <<>>, priorities |-> <<>>, criteria |-> Undef, out |-> <<>>,
   done |-> FALSE]

NoLocationCall ==
  [params |-> Undef, stage |-> 0, fetches |-> <<>>, out |-> Undef,
   pc |-> "idle"]

NoInvocations == <<>>

\* no server request and no second invocation is under way
ServerIdle ==
  /\ loc = NoLocationCall
  /\ apiKey = ""
  /\ posts = <<>>
  /\ inv = NoInvocations
  /\ world = <<>>

InitWith(tools, argSet) ==
  /\ ServerIdle
  /\ toolName \in tools
  /\ args \in argSet
  /\ pc = "start"
  /\ analysis = NoAnalysis
  /\ minCount = 0
  /\ allEvents = <<>>
  /\ gi = 0
  /\ level = NoLevel
  /\ result = NoResult
  /\ err = NoError
  /\ calls = <<>>
  /\ l4failed = {}
  /\ l4seen = {}
  /\ reached = {}
  /\ sc = NoScoreCall

Init == InitWith(ToolNames, ArgsSearch)

----------------------------------------------------------------------------
(* search() *)

\* level 2 is skipped
LevelPc_skip(n) == <<"L1", "L3", "L3", "L4">>[n]

LevelPc(n) == <<"L1", "L2", "L3", "L4">>[n]

\* const analysis = this.queryAnalyzer.analyze(toolName, args)
Analyze ==
  /\ pc = "start"
  /\ IF hasSpecificDateRangeThrows(args)
       THEN /\ pc' = "thrown"
            /\ err' = [kind |-> "TypeError", level |-> 0]
            /\ UNCHANGED <<analysis, minCount>>
       ELSE /\ analysis' = analyze(toolName, args)
            /\ minCount' = minCountOf(analysis')
            /\ pc' = "L1"
            /\ err' = err
  /\ UNCHANGED <<toolName, args, allEvents, gi, level, result, calls,
                 l4failed, l4seen, reached, sc>>
  /\ UNCHANGED <<loc, apiKey, posts, inv, world>>

\* a level has its events: return them when they reach minCount, else go on
Finish(n, events, relaxed) ==
  /\ level' = [n |-> n, events |-> events, relaxed |-> relaxed]
  /\ reached' = IF Cardinality(IdsOf(events)) >= minCount
                  THEN reached \cup {n} ELSE reached
  /\ allEvents' = <<>>
  /\ gi' = 0
  /\ IF Len(events) >= minCount
       THEN /\ pc' = "done"
            /\ result' = formatResult(events, n, relaxed, analysis, minCount)
     ELSE IF n = 4
       THEN /\ pc' = "done"
            /\ result' = failureResult(level', minCount)
     ELSE /\ pc' = LevelPc(n + 1)
          /\ result' = result

\* one kopisService call of level 1, 2 or 3 and what follows its outcome
LevelStep(n) ==
  LET genres == levelGenres(n, toolName, args)
      query == levelQuery(n, toolName, args, genres[gi + 1])
  IN /\ pc = LevelPc(n)
     /\ calls' = Append(calls, [level |-> n, q |-> query])
     /\ \/ \* the call fails: nothing catches it
           /\ pc' = "thrown"
           /\ err' = [kind |-> "UpstreamError", level |-> n]
           /\ UNCHANGED <<allEvents, gi, level, result, reached>>
        \/ \E raw \in Responses(MaxMerged - Len(allEvents)) :
             LET merged == allEvents \o serviceResult(toolName, query, raw)
             IN /\ err' = err
                /\ IF gi + 1 < Len(genres)
                     THEN /\ allEvents' = merged
                          /\ gi' = gi + 1
                          /\ UNCHANGED <<pc, level, result, reached>>
                     ELSE Finish(n,
                            IF levelDedup(n, toolName, args)
                              THEN deduplicateEvents(merged) ELSE merged,
                            levelRelaxed(n, toolName, args))
     /\ UNCHANGED <<toolName, args, analysis, minCount, l4failed, l4seen, sc>>
     /\ UNCHANGED <<loc, apiKey, posts, inv, world>>

Level1 == LevelStep(1)

Level2 == LevelStep(2)

Level3 == LevelStep(3)

\* one iteration of executeLevel4's loop over GENRE_CODES; at most maxFail
\* of the calls of one search fail
Level4Step(maxFail) ==
  /\ pc = "L4"
  /\ IF gi = 0 /\ level4Throws(args)
       THEN /\ pc' = "thrown"
            /\ err' = [kind |-> "TypeError", level |-> 4]
            /\ UNCHANGED <<allEvents, gi, level, result, calls, l4failed,
                           l4seen, reached>>
       ELSE
         LET genre == GENRE_CODES[gi + 1]
             query == level4Query(toolName, args, genre)
         IN /\ calls' = Append(calls, [level |-> 4, q |-> query])
            /\ \/ \* the call fails and the catch swallows it
                  /\ Cardinality(l4failed) < maxFail
                  /\ l4failed' = l4failed \cup {genre}
                  /\ l4seen' = l4seen
                  /\ LET next == level4AfterError(gi)
                     IN IF next.pc # "L4"
                          THEN /\ pc' = next.pc
                               /\ err' = [kind |-> "UpstreamError",
                                          level |-> 4]
                               /\ UNCHANGED <<allEvents, gi, level, result,
                                              reached>>
                        ELSE IF next.gi < Len(GENRE_CODES)
                          THEN /\ gi' = next.gi
                               /\ UNCHANGED <<pc, err, allEvents, level,
                                              result, reached>>
                        ELSE /\ err' = err
                             /\ Finish(4, deduplicateEvents(allEvents),
                                       level4Relaxed(args))
               \/ \E raw \in Responses(MaxMerged - Len(allEvents)) :
                    LET got == serviceResult(toolName, query, raw)
                        merged == allEvents \o got
                    IN /\ err' = err
                       /\ l4failed' = l4failed
                       /\ l4seen' = l4seen \cup IdsOf(got)
                       /\ IF gi + 1 < Len(GENRE_CODES)
                            THEN /\ allEvents' = merged
                                 /\ gi' = gi + 1
                                 /\ UNCHANGED <<pc, level, result, reached>>
                            ELSE Finish(4, deduplicateEvents(merged),
                                        level4Relaxed(args))
  /\ UNCHANGED <<toolName, args, analysis, minCount, sc>>
  /\ UNCHANGED <<loc, apiKey, posts, inv, world>>

Level4 == Level4Step(MaxFail)

Next == Analyze \/ Level1 \/ Level2 \/ Level3 \/ Level4

Spec == Init /\ [][Next]_vars

----------------------------------------------------------------------------
(* analyze() on its own, over requests of every shape *)

StartInputs ==
  {Undef, EmptyStr, Letters, Num(20261105), Str(20261105), Str(20261229)}

EndInputs ==
  {Undef, Letters, Num(20261110), Str(20261101), Str(20261110),
   Str(20261112), Str(20261113), Str(20270103)}

ArgsAnalyze ==
  {MakeArgs(g, <<s, e>>, <<Undef, Undef>>, l) :
     g \in {Undef, Str("AAAA")}, s \in StartInputs, e \in EndInputs,
     l \in {Undef, Num(0 - 1), Num(0), Num(1), Num(5)}}

InitAnalyze == InitWith(ToolNames, ArgsAnalyze)

NextAnalyze == Analyze

SpecAnalyze == InitAnalyze /\ [][NextAnalyze]_vars

----------------------------------------------------------------------------
(* scoreAndSort() on its own *)

\* the priority schemes determinePriorities can return
Schemes ==
  {determinePriorities(t, [isFree |-> t = FreeEvents,
                           isTrending |-> t = Trending,
                           hasDateKeyword |-> h]) :
     t \in ToolNames, h \in BOOLEAN}

\* the same schemes without their optional fourth slot
ThreeSlotSchemes == {SubSeq(p, 1, 3) : p \in Schemes}

\* popularity values: none, the value 0, and what getTrendingPerformances
\* attaches
PopularityInputs ==
  {Undef, Num(0)}
  \cup {Num(rankedPopularity(i, d)) : i \in 0..MaxRank, d \in {3, 58}}

\* digit runs of price texts without free marker, one per price band;
\* <<30, 0>> is the text "30,000won", whose comma splits the digits
PriceTokenInputs ==
  {<<5000>>, <<5001>>, <<10000, 20000>>, <<20000>>, <<50000>>, <<50001>>,
   <<30, 0>>}

PriceBandEvents ==
  {RawEvent(1, PriceText(FALSE, FALSE, t), Str(20261105), Str(20261106),
            "theater", {11, 1111}, 3) : t \in PriceTokenInputs}

ScoreEventsBase ==
  {[RawEvent(1, price, dates[1], dates[2], "theater", {11, 1111}, 3)
      EXCEPT !.popularityScore = pop] :
     price \in {PriceText(TRUE, FALSE, <<>>),
                PriceText(FALSE, FALSE, <<8000>>), NoPriceText},
     dates \in {<<Str(20261105), Str(20261106)>>, <<Undef, Undef>>},
     pop \in PopularityInputs}

\* event spans around the target span 20261105..20261110: inside, across
\* its start, 6, 14, 30 and 31 days before it, 10 days after it, and spans
\* that lack their end or their start
DateBandEvents ==
  {RawEvent(1, PriceText(FALSE, FALSE, <<8000>>), d[1], d[2], "theater",
            {11, 1111}, 3) :
     d \in {<<Str(20261106), Str(20261109)>>,
            <<Str(20261101), Str(20261107)>>,
            <<Str(20261030), Str(20261101)>>,
            <<Str(20261022), Str(20261023)>>,
            <<Str(20261006), Str(20261007)>>,
            <<Str(20261005), Str(20261006)>>,
            <<Str(20261115), Str(20261130)>>,
            <<Str(20261120), Undef>>,
            <<Undef, Str(20261107)>>}}

ScoreEvents == ScoreEventsBase \cup PriceBandEvents \cup DateBandEvents

\* the events that follow the first one of a scored list
ScoreTail ==
  {[e EXCEPT !.mt20id = 2] :
     e \in {x \in ScoreEventsBase :
              /\ x.pcseguidance # NoPriceText
              /\ x.prfpdfrom # Undef
              /\ x.popularityScore \in {Undef, Num(rankedPopularity(0, 3))}}}

ScoreCriteria ==
  [targetDate : {Undef, [k |-> "range", start |-> Str(20261105),
                         end |-> Str(20261110)]},
   targetLocation : {Undef, Str(1111)},
   targetGenre : {Undef, Str("GGGA")},
   isFree : {FALSE}]

\* no search() is under way
EngineIdle ==
  /\ toolName = ByLocation
  /\ args = NoArgs
  /\ pc = "idle"
  /\ analysis = NoAnalysis
  /\ minCount = 0
  /\ allEvents = <<>>
  /\ gi = 0
  /\ level = NoLevel
  /\ result = NoResult
  /\ err = NoError
  /\ calls = <<>>
  /\ l4failed = {}
  /\ l4seen = {}
  /\ reached = {}

InitScore ==
  /\ ServerIdle
  /\ EngineIdle
  /\ \E first \in ScoreEvents :
       \E n \in 0..(MaxScoreList - 1) :
         \E rest \in [1..n -> ScoreTail] :
           \E priorities \in Schemes \cup ThreeSlotSchemes :
             \E criteria \in ScoreCriteria :
               LET events == <<first>> \o rest
               IN \* only the trending feed attaches a popularity
                  /\ priorities[1] # "popularity" =>
                       \A i \in 1..Len(events) :
                         events[i].popularityScore = Undef
                  /\ sc = [events |-> events, priorities |-> priorities,
                           criteria |-> criteria, out |-> <<>>,
                           done |-> FALSE]

ScoreAndSort ==
  /\ pc = "idle"
  /\ ~sc.done
  /\ sc' = [sc EXCEPT
             !.out = scoreAndSort(sc.events, sc.priorities, sc.criteria),
             !.done = TRUE]
  /\ UNCHANGED <<toolName, args, pc, analysis, minCount, allEvents, gi,
                 level, result, err, calls, l4failed, l4seen, reached>>
  /\ UNCHANGED <<loc, apiKey, posts, inv, world>>

NextScore == ScoreAndSort

SpecScore == InitScore /\ [][NextScore]_vars

----------------------------------------------------------------------------
(* search() with a level-4 fan-out in which any set of genres may fail *)

ArgsFanout ==
  {MakeArgs(Str("CCCD"), <<Undef, Undef>>, <<Str(11), Str(1111)>>, Num(2))}

InitFanout == InitWith(ToolNames, ArgsFanout)

Level4AnyFail == Level4Step(Len(GENRE_CODES))

NextFanout == Analyze \/ Level1 \/ Level2 \/ Level3 \/ Level4AnyFail

SpecFanout == InitFanout /\ [][NextFanout]_vars

----------------------------------------------------------------------------
(* KopisService.searchEventsByLocation() on its own: district, province,   *)
(* nationwide                                                              *)

Stages == <<"gugun", "sido", "nationwide">>

\* whether the query of stage i is attempted: if (gugunCode && sidoCode),
\* if (sidoCode), and the unconditional nationwide query
stageApplies(params, i) ==
  IF i = 1 THEN Truthy(params.gugunCode) /\ Truthy(params.sidoCode)
  ELSE IF i = 2 THEN Truthy(params.sidoCode)
  ELSE TRUE

\* the first stage after stage `from` whose query is attempted
RECURSIVE nextStage(_, _)
nextStage(params, from) ==
  IF stageApplies(params, from + 1) THEN from + 1
  ELSE nextStage(params, from + 1)

\* the parameters searchEventsByLocation hands to fetchEvents at stage i;
\* limit = 20 when the caller gave none
stageFetch(params, i) ==
  [scope |-> Stages[i],
   signguCode |-> IF i = 1 THEN params.gugunCode
                  ELSE IF i = 2 THEN params.sidoCode
                  ELSE Undef,
   limit |-> validLimitOf(IF params.limit.k = "undefined" THEN Num(20)
                          ELSE params.limit)]

LocationParams ==
  [sidoCode : {Undef, Str(11)}, gugunCode : {Undef, Str(1111)},
   limit : {Undef, Num(0), Num(60)}]

InitLocation ==
  /\ EngineIdle
  /\ sc = NoScoreCall
  /\ apiKey = ""
  /\ posts = <<>>
  /\ inv = NoInvocations
  /\ world = <<>>
  /\ loc \in {[NoLocationCall EXCEPT !.params = q, !.pc = "run"] :
                q \in LocationParams}

\* one fetchEvents call of searchEventsByLocation and what follows it
SearchEventsByLocation ==
  /\ loc.pc = "run"
  /\ LET i == nextStage(loc.params, loc.stage)
         fetch == stageFetch(loc.params, i)
     IN \/ \* fetchEvents throws
           loc' = [loc EXCEPT
                     !.fetches = Append(@, [q |-> fetch, failed |-> TRUE,
                                            results |-> <<>>]),
                     !.stage = i, !.pc = "thrown"]
        \/ \E results \in Responses(MaxResp) :
             loc' = [loc EXCEPT
                       !.fetches = Append(@, [q |-> fetch, failed |-> FALSE,
                                              results |-> results]),
                       !.stage = i,
                       !.pc = IF i = 3 \/ Len(results) > 0
                                THEN "done" ELSE "run",
                       !.out = IF i = 3 \/ Len(results) > 0
                                 THEN [events |-> results,
                                       searchLevel |-> Stages[i]]
                               ELSE @]
  /\ UNCHANGED searchVars
  /\ UNCHANGED <<apiKey, posts, inv, world>>

NextLocation == SearchEventsByLocation

SpecLocation == InitLocation /\ [][NextLocation]_vars

----------------------------------------------------------------------------
(* Two search() invocations on one SmartSearchService, interleaved at      *)
(* their awaits, against an upstream whose answer depends on the genre of  *)
(* the call                                                                *)

WorldGenres == {"AAAA", "GGGA"}

Failure == [failed |-> TRUE, events |-> <<>>]

PairOutcomes ==
  {Failure}
  \cup {[failed |-> FALSE, events |-> r] :
          r \in UNION {[1..n -> Catalogue] : n \in 0..MaxPairResp}}

\* the key of the answers to calls without genre filter
NoGenre == ""

\* what the upstream answers to a call: nothing for the other genres
upstreamOutcome(w, query) ==
  IF query.genreCode.k = "string" /\ query.genreCode.v \in DOMAIN w
    THEN w[query.genreCode.v]
  ELSE IF ~Truthy(query.genreCode) /\ NoGenre \in DOMAIN w THEN w[NoGenre]
  ELSE [failed |-> FALSE, events |-> <<>>]

\* an invocation reads the accumulator of the first invocation
accumulatorOf_shared(invs, p) == invs[1].allEvents

\* const allEvents: any[] = [] is local to the invocation
accumulatorOf(invs, p) == invs[p].allEvents

\* the Set of ids is kept from the other invocations' last level
seenAtStart_kept(invs, p) ==
  UNION {IdsOf(invs[q].level.events) : q \in DOMAIN invs \ {p}}

\* const seen = new Set<string>() is local to one deduplicateEvents call
seenAtStart(invs, p) == {}

\* the events whose id is not in seen
RECURSIVE dropSeen(_, _)
dropSeen(events, seen) ==
  IF events = <<>> THEN <<>>
  ELSE (IF events[1].mt20id \in seen THEN <<>> ELSE <<events[1]>>)
       \o dropSeen(Tail(events), seen)

newInvocation(tool, a) ==
  [tool |-> tool, args |-> a, pc |-> "start", analysis |-> NoAnalysis,
   minCount |-> 0, allEvents |-> <<>>, gi |-> 0, level |-> NoLevel,
   result |-> NoResult, err |-> NoError, calls |-> <<>>,
   overlapped |-> FALSE]

\* a level of invocation v has its events: return or go on
finishInvocation(v, n, events, relaxed) ==
  LET done == [n |-> n, events |-> events, relaxed |-> relaxed]
      w == [v EXCEPT !.level = done, !.allEvents = <<>>, !.gi = 0]
  IN IF Len(events) >= v.minCount
       THEN [w EXCEPT !.pc = "done",
               !.result = formatResult(events, n, relaxed, v.analysis,
                                       v.minCount)]
     ELSE IF n = 4
       THEN [w EXCEPT !.pc = "done",
               !.result = failureResult(done, v.minCount)]
     ELSE [w EXCEPT !.pc = LevelPc(n + 1)]

\* the step invocation p takes from its current await point
stepInvocation(invs, p, w) ==
  LET v == invs[p]
      n == IF v.pc = "start" THEN 0
           ELSE CHOOSE k \in 1..4 : v.pc = LevelPc(k)
      dedup(events) == dropSeen(deduplicateEvents(events),
                                seenAtStart(invs, p))
  IN IF v.pc = "start"
       THEN IF hasSpecificDateRangeThrows(v.args)
              THEN [v EXCEPT !.pc = "thrown",
                      !.err = [kind |-> "TypeError", level |-> 0]]
            ELSE [v EXCEPT !.analysis = analyze(v.tool, v.args),
                    !.minCount = minCountOf(analyze(v.tool, v.args)),
                    !.pc = "L1"]
     ELSE IF n \in 1..3
       THEN LET genres == levelGenres(n, v.tool, v.args)
                query == levelQuery(n, v.tool, v.args, genres[v.gi + 1])
                outcome == upstreamOutcome(w, query)
                merged == accumulatorOf(invs, p)
                            \o serviceResult(v.tool, query, outcome.events)
                called == [v EXCEPT
                            !.calls = Append(@, [level |-> n, q |-> query])]
            IN IF outcome.failed
                 THEN [called EXCEPT !.pc = "thrown",
                         !.err = [kind |-> "UpstreamError", level |-> n]]
               ELSE IF v.gi + 1 < Len(genres)
                 THEN [called EXCEPT !.allEvents = merged, !.gi = @ + 1]
               ELSE finishInvocation(called, n,
                      IF levelDedup(n, v.tool, v.args) THEN dedup(merged)
                      ELSE merged,
                      levelRelaxed(n, v.tool, v.args))
     ELSE IF v.gi = 0 /\ level4Throws(v.args)
       THEN [v EXCEPT !.pc = "thrown",
               !.err = [kind |-> "TypeError", level |-> 4]]
     ELSE LET genre == GENRE_CODES[v.gi + 1]
              query == level4Query(v.tool, v.args, genre)
              outcome == upstreamOutcome(w, query)
              merged == IF outcome.failed THEN accumulatorOf(invs, p)
                        ELSE accumulatorOf(invs, p)
                               \o serviceResult(v.tool, query, outcome.events)
              called == [v EXCEPT
                          !.calls = Append(@, [level |-> 4, q |-> query])]
          IN IF v.gi + 1 < Len(GENRE_CODES)
               THEN [called EXCEPT !.allEvents = merged, !.gi = @ + 1]
             ELSE finishInvocation(called, 4, dedup(merged),
                                   level4Relaxed(v.args))

Finished(v) == v.pc \in {"done", "thrown"}

\* the request of the first invocation, and another request
PairArgs ==
  <<MakeArgs(Str("AAAA"), <<Str(20261105), Str(20261110)>>,
             <<Str(11), Str(1111)>>, Num(2)),
    MakeArgs(Str("GGGA"), <<Undef, Undef>>, <<Undef, Undef>>, Num(1))>>

InitPair ==
  /\ EngineIdle
  /\ sc = NoScoreCall
  /\ loc = NoLocationCall
  /\ apiKey = ""
  /\ posts = <<>>
  /\ world \in [WorldGenres -> PairOutcomes]
  /\ \E t1 \in ToolNames :
       \E second \in {<<t1, PairArgs[1]>>, <<ByLocation, PairArgs[2]>>} :
         inv = <<newInvocation(t1, PairArgs[1]),
                 newInvocation(second[1], second[2])>>

\* invocation p runs from one await to the next
PairStep(p) ==
  /\ ~Finished(inv[p])
  /\ inv' = [inv EXCEPT
               ![p] = [stepInvocation(inv, p, world) EXCEPT
                         !.overlapped =
                           @ \/ \E q \in DOMAIN inv \ {p} :
                                  inv[q].pc \notin {"start", "done",
                                                    "thrown"}]]
  /\ UNCHANGED searchVars
  /\ UNCHANGED <<loc, apiKey, posts, world>>

NextPair == \E p \in 1..2 : PairStep(p)

SpecPair == InitPair /\ [][NextPair]_vars

----------------------------------------------------------------------------
(* Two free-event or trending searches that differ in their dates at most, *)
(* one after the other, against an upstream that answers equal calls       *)
(* equally                                                                 *)

InitReplay ==
  /\ EngineIdle
  /\ sc = NoScoreCall
  /\ loc = NoLocationCall
  /\ apiKey = ""
  /\ posts = <<>>
  /\ world \in [{NoGenre, "AAAA"} -> PairOutcomes]
  /\ \E t \in {FreeEvents, Trending} :
       \E g \in {Undef, Str("AAAA")} :
         \E l \in {Undef, Num(1)} :
           \* dates of the type the tools declare: absent, or strings
           \E first, second \in {<<Undef, Undef>>,
                                 <<Str(20261105), Str(20261110)>>,
                                 <<Letters, Str(20261231)>>} :
             inv = <<newInvocation(t, MakeArgs(g, first, <<Str(11), Undef>>,
                                               l)),
                     newInvocation(t, MakeArgs(g, second, <<Str(11), Undef>>,
                                               l))>>

\* invocation p runs once the invocations before it have returned
ReplayStep(p) ==
  /\ \A q \in 1..(p - 1) : Finished(inv[q])
  /\ PairStep(p)

NextReplay == \E p \in 1..2 : ReplayStep(p)

SpecReplay == InitReplay /\ [][NextReplay]_vars

----------------------------------------------------------------------------
(* The HTTP server: POST /sse requests that carry a kopis_api_key header   *)

\* the header of request r
RequestKeys == <<"keyA", "keyB">>

\* fetchKopisApi calls one tool call makes: one list query; the box-office
\* query and a list query; a list query and one detail query per event
upstreamCalls(tool, details) ==
  IF tool = ByLocation THEN 1
  ELSE IF tool = Trending THEN 2
  ELSE 1 + details

\* setApiKey(key)
setApiKey(key) == key

\* fetchKopisApi: service: apiKey, read when the call is made
fetchKopisApi(key) == key

InitServer ==
  /\ EngineIdle
  /\ sc = NoScoreCall
  /\ loc = NoLocationCall
  /\ inv = NoInvocations
  /\ world = <<>>
  /\ apiKey = ""
  /\ \E tools \in [1..Len(RequestKeys) -> ToolNames] :
       \E details \in [1..Len(RequestKeys) -> 0..MaxDetails] :
         posts = [r \in 1..Len(RequestKeys) |->
                    [pc |-> "arriving", tool |-> tools[r],
                     left |-> upstreamCalls(tools[r], details[r]),
                     used |-> <<>>]]

\* app.post("/sse"): setApiKey(requestApiKey), then the tool call runs up to
\* the await of its first fetchKopisApi
Post(r) ==
  /\ posts[r].pc = "arriving"
  /\ apiKey' = setApiKey(RequestKeys[r])
  /\ posts' = [posts EXCEPT
                 ![r].used = Append(@, fetchKopisApi(apiKey')),
                 ![r].left = @ - 1,
                 ![r].pc = IF posts[r].left = 1 THEN "done" ELSE "awaiting"]
  /\ UNCHANGED searchVars
  /\ UNCHANGED <<loc, inv, world>>

\* the tool call of request r resumes after an await and makes its next
\* fetchKopisApi call
Resume(r) ==
  /\ posts[r].pc = "awaiting"
  /\ posts' = [posts EXCEPT
                 ![r].used = Append(@, fetchKopisApi(apiKey)),
                 ![r].left = @ - 1,
                 ![r].pc = IF posts[r].left = 1 THEN "done" ELSE "awaiting"]
  /\ UNCHANGED searchVars
  /\ UNCHANGED <<loc, apiKey, inv, world>>

NextServer == \E r \in 1..Len(RequestKeys) : Post(r) \/ Resume(r)

SpecServer == InitServer /\ [][NextServer]_vars

----------------------------------------------------------------------------
(* KopisService.filterFreeEvents() on its own, over limits and over mixes  *)
(* of free and paid upstream events                                        *)

\* the object filterFreeEvents resolves to: its events and its two counts
filterFreeEventsResult(events, limit) ==
  LET \* const { genreCode, sidoCode, limit = 20 } = params
      given == IF limit.k = "undefined" THEN Num(20) ELSE limit
      out == filterFreeEvents(events, given)
      freeEvents == filterByFree(events, TRUE)
  IN [events |-> out,
      freeCount |-> Len(freeEvents),
      paidCount |-> Len(out) - Len(freeEvents)]

\* longest mixed list the upstream sends to one filterFreeEvents call
MaxFilterList == 3

\* if (freeEvents.length >= 10): free events that make a list long enough
FreeEnough == 10

\* short mixes, and lists with ten free events and more
FilterLists ==
  LET pool ==
        {RawEvent(1, PriceText(TRUE, FALSE, <<>>), Str(20261105), Str(20261106),
                  "theater", {11}, 3),
         RawEvent(2, PriceText(FALSE, TRUE, <<0>>), Str(20261105), Str(20261106),
                  "theater", {11}, 3),
         RawEvent(3, PriceText(FALSE, FALSE, <<8000>>), Str(20261105),
                  Str(20261106), "theater", {11}, 3),
         RawEvent(4, PriceText(FALSE, FALSE, <<5000>>), Str(20261105),
                  Str(20261106), "theater", {11}, 3)}
      manyFree ==
        [i \in 1..FreeEnough |->
           RawEvent(10 + i, PriceText(TRUE, FALSE, <<>>), Str(20261105),
                    Str(20261106), "theater", {11}, 3)]
  IN UNION {[1..n -> pool] : n \in 0..MaxFilterList}
     \cup {manyFree \o tail :
             tail \in UNION {[1..n -> pool] :
                               n \in 0..(MaxFilterList - 2)}}

InitFilter ==
  /\ ServerIdle
  /\ toolName = FreeEvents
  /\ \E l \in {Undef, Num(0 - 1), Num(0), Num(1), Num(2), Num(12), Num(60)} :
       args = [NoArgs EXCEPT !.limit = l]
  /\ pc = "fetch"
  /\ analysis = NoAnalysis
  /\ minCount = 0
  /\ allEvents = <<>>
  /\ gi = 0
  /\ level = NoLevel
  /\ result = NoResult
  /\ err = NoError
  /\ calls = <<>>
  /\ l4failed = {}
  /\ l4seen = {}
  /\ reached = {}
  /\ sc = NoScoreCall

\* const events = await this.fetchEvents(...): it throws or sends a list
FetchForFilter ==
  /\ pc = "fetch"
  /\ \/ /\ pc' = "thrown"
        /\ err' = [kind |-> "UpstreamError", level |-> 0]
        /\ allEvents' = allEvents
     \/ \E raw \in FilterLists :
          /\ allEvents' = raw
          /\ pc' = "filter"
          /\ err' = err
  /\ UNCHANGED <<toolName, args, analysis, minCount, gi, level, result,
                 calls, l4failed, l4seen, reached, sc>>
  /\ UNCHANGED <<loc, apiKey, posts, inv, world>>

\* the rest of filterFreeEvents: split, sort, fall back, count
FilterFree ==
  /\ pc = "filter"
  /\ result' = filterFreeEventsResult(allEvents, args.limit)
  /\ pc' = "done"
  /\ UNCHANGED <<toolName, args, analysis, minCount, allEvents, gi, level,
                 err, calls, l4failed, l4seen, reached, sc>>
  /\ UNCHANGED <<loc, apiKey, posts, inv, world>>

NextFilter == FetchForFilter \/ FilterFree

SpecFilter == InitFilter /\ [][NextFilter]_vars

----------------------------------------------------------------------------
(* Claims *)

SetMin(S) == CHOOSE x \in S : \A y \in S : x <= y

\* the genres of the kopisService calls that level n issued, in order
RECURSIVE GenresCalled(_, _)
GenresCalled(log, n) ==
  IF log = <<>> THEN <<>>
  ELSE (IF log[1].level = n THEN <<log[1].q.genreCode>> ELSE <<>>)
       \o GenresCalled(Tail(log), n)

\* C1: if some level yields at least minCount distinct events, search()
\* returns the smallest such level and exactly minCount events.
C1_MinimumCount ==
  (pc = "done" /\ reached # {}) =>
    /\ result.level = SetMin(reached)
    /\ Len(result.events) = minCount

\* the minimum-count guarantee for searches whose limit is absent or positive
MinimumCountPositiveLimit ==
  (args.limit.k = "undefined" \/ args.limit.v > 0) => C1_MinimumCount

\* C2: no two events of a returned result share an id, at any level.
C2_NoDuplicateIds ==
  pc = "done" => Cardinality(IdsOf(result.events)) = Len(result.events)

\* C3: a failed upstream call of level 1, 2 or 3 counts as zero events for
\* that level and never leaves search() as an exception.
C3_FailureAbsorbed ==
  ~(pc = "thrown" /\ err.kind = "UpstreamError" /\ err.level \in 1..3)

\* C4: when level 4 completes with fewer distinct events than minCount,
\* search() returns level 0 with all level-4 events, the level-4 log and a
\* message naming minCount and the number found.
C4_FailureResult ==
  (level.n = 4 /\ Cardinality(l4seen) < minCount) =>
    /\ pc = "done"
    /\ result.level = 0
    /\ IdsOf(result.events) = l4seen
    /\ Len(result.events) = Cardinality(l4seen)
    /\ result.relaxedConditions = level4Relaxed(args)
    /\ result.message.kind = "failure"
    /\ result.message.minCount = minCount
    /\ result.message.foundCount = Cardinality(l4seen)

\* level 4 found one event where two were asked for
C4_Witness ==
  /\ pc = "done" /\ level.n = 4 /\ minCount = 2
  /\ result.level = 0 /\ Len(result.events) = 1

\* C5: in the level-4 fan-out a failed call adds no events and stops
\* nothing: whatever genres fail, every genre is queried exactly once, in
\* table order, and the events of the calls that succeed are in the
\* level-4 event set.
C5_FanoutSurvivesFailures ==
  /\ ~(pc = "thrown" /\ err.kind = "UpstreamError" /\ err.level = 4)
  /\ pc = "L4" =>
       /\ GenresCalled(calls, 4) =
            [i \in 1..gi |-> Str(GENRE_CODES[i])]
       /\ l4seen = IdsOf(allEvents)
  /\ level.n = 4 =>
       /\ GenresCalled(calls, 4) =
            [i \in 1..Len(GENRE_CODES) |-> Str(GENRE_CODES[i])]
       /\ l4seen = IdsOf(level.events)

\* all genres but the last failed, and the last one's events are returned
C5_Witness ==
  /\ level.n = 4
  /\ l4failed = {GENRE_CODES[i] : i \in 1..(Len(GENRE_CODES) - 1)}
  /\ l4seen # {}
  /\ IdsOf(level.events) = l4seen

IsMalformedDate(d) == d.k \notin {"undefined", "string"}

\* C6: a by-location or free-event request without genreCode, or with a
\* malformed startDate or endDate, is rejected before any upstream call.
C6_InvalidParamsRejected ==
  (/\ toolName # Trending
   /\ \/ ~Truthy(args.genreCode)
      \/ IsMalformedDate(args.startDate)
      \/ IsMalformedDate(args.endDate))
  => calls = <<>>

Analyzed == pc \notin {"start", "thrown", "idle"}

\* C7: analyze() assigns the priorities of the first rule that matches, in
\* the order free-event mode, trending mode, start and end date both given
\* with a span of at most 7 days, default; the mode wins over a narrow span.
C7_PriorityOrder ==
  Analyzed =>
    analysis.priorities =
      IF toolName = FreeEvents
        THEN <<"price", "date", "genre", "location">>
      ELSE IF toolName = Trending
        THEN <<"popularity", "count", "genre", "date">>
      ELSE IF /\ args.startDate.k = "string" /\ args.endDate.k = "string"
              /\ ParseDay(args.endDate) - ParseDay(args.startDate) <= 7
        THEN <<"date", "count", "genre", "location">>
      ELSE <<"date", "location", "genre", "count">>

\* a free-event request with a five-day span has been analysed
C7_Witness ==
  /\ Analyzed
  /\ toolName = FreeEvents
  /\ args.startDate = Str(20261105) /\ args.endDate = Str(20261110)
  /\ analysis.priorities[1] = "price"

\* C8: the minCount search() uses is the caller's limit when the limit is
\* present and greater than 0, and 3 in every other case.
C8_MinCount ==
  Analyzed =>
    minCount = IF args.limit.k = "number" /\ args.limit.v > 0
                 THEN args.limit.v ELSE 3

\* C9: analyze() is total: it returns a QueryAnalysis for every search mode
\* and every object-shaped rawParams, and never fails.
C9_AnalyzeTotal == ~(pc = "thrown" /\ err.level = 0)

SubScoreOk(x) == 0 <= x /\ x <= 100

\* C10: every sub-score of every scored event lies in [0,100], and so does
\* totalScore (kept here in tenths).
C10_ScoreBounds ==
  sc.done =>
    \A i \in 1..Len(sc.out) :
      /\ SubScoreOk(sc.out[i].breakdown.priceScore)
      /\ SubScoreOk(sc.out[i].breakdown.dateScore)
      /\ SubScoreOk(sc.out[i].breakdown.genreScore)
      /\ SubScoreOk(sc.out[i].breakdown.locationScore)
      /\ SubScoreOk(sc.out[i].breakdown.popularityScore)
      /\ 0 <= sc.out[i].totalScore10 /\ sc.out[i].totalScore10 <= 1000

\* the sub-score a slot's dimension names; count names none
SubScoreOf(breakdown, dim) ==
  CASE dim = "price" -> breakdown.priceScore
    [] dim = "date" -> breakdown.dateScore
    [] dim = "genre" -> breakdown.genreScore
    [] dim = "location" -> breakdown.locationScore
    [] dim = "popularity" -> breakdown.popularityScore
    [] OTHER -> 0

SlotName(priorities, j) ==
  IF j <= Len(priorities) THEN priorities[j] ELSE "count"

\* C11: totalScore (in tenths) is 4, 3, 2, 1 times the sub-scores of the
\* dimensions the first to fourth slot name; count, and an absent fourth
\* slot, add nothing, and a dimension no slot names adds nothing.
C11_WeightedSum ==
  sc.done =>
    \A i \in 1..Len(sc.out) :
      sc.out[i].totalScore10 =
          4 * SubScoreOf(sc.out[i].breakdown, SlotName(sc.priorities, 1))
        + 3 * SubScoreOf(sc.out[i].breakdown, SlotName(sc.priorities, 2))
        + 2 * SubScoreOf(sc.out[i].breakdown, SlotName(sc.priorities, 3))
        + 1 * SubScoreOf(sc.out[i].breakdown, SlotName(sc.priorities, 4))

\* a scheme without fourth slot and with count second has scored an event
\* whose unnamed location sub-score is 100
C11_Witness ==
  /\ sc.done
  /\ sc.priorities = <<"date", "count", "genre">>
  /\ sc.out[1].breakdown.locationScore = 100
  /\ sc.out[1].totalScore10 > 0

Orderings(n) ==
  {p \in [1..n -> 1..n] : \A i, j \in 1..n : p[i] = p[j] => i = j}

\* C12: scoreAndSort returns the score of every input event exactly once,
\* by non-increasing totalScore, and events of equal totalScore keep their
\* input order.
C12_StableDescending ==
  sc.done =>
    /\ Len(sc.out) = Len(sc.events)
    /\ \E p \in Orderings(Len(sc.events)) :
         /\ \A i \in 1..Len(sc.out) :
              sc.out[i] =
                calculateScore(sc.events[p[i]], sc.priorities, sc.criteria)
         /\ \A i, j \in 1..Len(sc.out) :
              i < j =>
                /\ sc.out[i].totalScore10 >= sc.out[j].totalScore10
                /\ sc.out[i].totalScore10 = sc.out[j].totalScore10
                     => p[i] < p[j]

\* two different events tie and come out in input order
C12_Witness ==
  /\ sc.done
  /\ Len(sc.out) = 2
  /\ sc.events[1] # sc.events[2]
  /\ sc.out[1].totalScore10 = sc.out[2].totalScore10
  /\ sc.out[1].event = sc.events[1]
  /\ sc.out[2].event = sc.events[2]

\* the calls of level n in the log
CallsOf(log, n) == {log[i].q : i \in {j \in 1..Len(log) : log[j].level = n}}

\* genre g of one level is covered by the genre set of the next: it is in
\* the set, or the set has a call without genre filter, or g is no filter
\* and the set holds every known genre
GenreCovered(g, next) ==
  \/ g \in next
  \/ \E h \in next : ~Truthy(h)
  \/ ~Truthy(g) /\ \A i \in 1..Len(GENRE_CODES) : Str(GENRE_CODES[i]) \in next

\* the narrowest region a call asks for: district, province or none
RegionOf(q) ==
  IF Truthy(q.gugunCode) /\ Truthy(q.sidoCode) THEN q.gugunCode
  ELSE IF Truthy(q.sidoCode) THEN q.sidoCode
  ELSE Undef

RegionEncloses(wide, narrow) ==
  \/ ~Truthy(wide)
  \/ wide = narrow
  \/ Truthy(narrow) /\ wide.v < 100 /\ narrow.v >= 100
       /\ narrow.v \div 100 = wide.v

\* judged when the narrower call carries two well-formed dates
WindowContains(wide, narrow) ==
  \/ wide.startDate = narrow.startDate /\ wide.endDate = narrow.endDate
  \/ IsNaNDate(narrow.startDate) \/ IsNaNDate(narrow.endDate)
  \/ /\ ~IsNaNDate(wide.startDate) /\ ~IsNaNDate(wide.endDate)
     /\ ParseDay(wide.startDate) <= ParseDay(narrow.startDate)
     /\ ParseDay(wide.endDate) >= ParseDay(narrow.endDate)

\* C13: from level k to level k+1 the genre set, the region, the date
\* window and the per-call result cap of the queries never get narrower.
C13_ScopeNeverNarrows ==
  \A k \in 1..3 :
    /\ \A q1 \in CallsOf(calls, k) : \A q2 \in CallsOf(calls, k + 1) :
         /\ RegionEncloses(RegionOf(q2), RegionOf(q1))
         /\ WindowContains(q2, q1)
         /\ validLimitOf(q2.limit) >= validLimitOf(q1.limit)
    /\ level.n >= k + 1 =>
         \A q1 \in CallsOf(calls, k) :
           GenreCovered(q1.genreCode,
                        {q2.genreCode : q2 \in CallsOf(calls, k + 1)})

\* C18: the levels run in the order 1, 2, 3, 4: a call of level n is issued
\* only when level n-1 is the last level completed and it stayed below
\* minCount, and no call is issued once a level reached minCount and
\* search() returned.
C18_LevelsInOrder ==
  [][calls' # calls =>
       LET n == calls'[Len(calls')].level
       IN /\ Len(calls') = Len(calls) + 1
          /\ level.n = n - 1
          /\ ~(level.n >= 1 /\ Len(level.events) >= minCount)
          /\ result = NoResult]_vars

\* level 4 has begun its calls after levels 1, 2 and 3 completed
C18_Witness ==
  /\ pc = "L4" /\ gi = 1 /\ level.n = 3
  /\ \A k \in 1..4 : CallsOf(calls, k) # {}

\* C19: the popularity sub-score is the popularity the event carries, 0
\* included, and 50 only when the event carries none.
C19_PopularityPassThrough ==
  sc.done =>
    \A i \in 1..Len(sc.out) :
      sc.out[i].breakdown.popularityScore =
        IF sc.out[i].event.popularityScore.k = "number"
          THEN sc.out[i].event.popularityScore.v
        ELSE 50

\* C20: without free marker and literal zero text, the price score follows
\* the smallest number m of the text: none 0, m <= 5000 80, m <= 10000 60,
\* m <= 20000 40, m <= 50000 20, else 10; only a free event scores 100.
C20_PriceBands ==
  sc.done =>
    \A i \in 1..Len(sc.out) :
      LET text == sc.out[i].event.pcseguidance
          score == sc.out[i].breakdown.priceScore
          m == SeqMin(text.tokens)
      IN /\ (~text.marker /\ ~text.literalZero) =>
              score = IF text.tokens = <<>> THEN 0
                      ELSE IF m <= 5000 THEN 80
                      ELSE IF m <= 10000 THEN 60
                      ELSE IF m <= 20000 THEN 40
                      ELSE IF m <= 50000 THEN 20
                      ELSE 10
         /\ score = 100 => (text.marker \/ text.literalZero)

\* the date score the rule gives: an event has a span when both its dates
\* are there, and a day difference when its start is there
StatedDateScore(event, targetDate) ==
  LET from == event.prfpdfrom
      to == event.prfpdto
      hasSpan == from.k = "string" /\ to.k = "string"
  IN IF targetDate.k = "undefined" THEN 50
     ELSE IF hasSpan /\ from.v >= targetDate.start.v
             /\ to.v <= targetDate.end.v THEN 100
     ELSE IF hasSpan /\ from.v <= targetDate.end.v
             /\ to.v >= targetDate.start.v THEN 70
     ELSE IF from.k # "string" THEN 0
     ELSE LET d == Abs(ParseDay(from) - ParseDay(targetDate.start))
          IN IF d <= 7 THEN 50
             ELSE IF d <= 14 THEN 30
             ELSE IF d <= 30 THEN 10
             ELSE 0

\* C21: the date score is 50 without target date; else 100 for an event
\* span inside the target span, else 70 for a span that overlaps it, else
\* 50, 30, 10 or 0 by the days between target start and event start (up to
\* 7, 14, 30, more), also for events that lack their start or end date.
C21_DateScore ==
  sc.done =>
    \A i \in 1..Len(sc.out) :
      sc.out[i].breakdown.dateScore =
        StatedDateScore(sc.out[i].event, sc.criteria.targetDate)

\* the province of the region the caller gave: of the district if there is
\* one, else of the province code, else none
StatedProvince(a) ==
  IF Truthy(a.gugunCode) THEN Str(a.gugunCode.v \div 100)
  ELSE IF Truthy(a.sidoCode)
    THEN (IF a.sidoCode.v >= 100 THEN Str(a.sidoCode.v \div 100)
          ELSE a.sidoCode)
  ELSE Undef

\* the later of the caller's end date and the same day of next month; Today
\* is not in December and its day exists in the next month
StatedEndDate(a) ==
  LET later == Str(Today.v + 100)
  IN IF a.endDate.k = "string" /\ a.endDate.v > later.v THEN a.endDate
     ELSE later

\* C22: level 4 issues one call per known genre, in table order, each for
\* the province of the caller's district or province code or for no region;
\* in by-location mode each call runs from today to the later of one month
\* from today and the caller's endDate; its log has the three entries
\* location, genre, date.
C22_Level4Shape ==
  /\ pc = "L4" =>
       GenresCalled(calls, 4) = [i \in 1..gi |-> Str(GENRE_CODES[i])]
  /\ level.n = 4 =>
       /\ GenresCalled(calls, 4) =
            [i \in 1..Len(GENRE_CODES) |-> Str(GENRE_CODES[i])]
       /\ Len(level.relaxed) = 3
       /\ level.relaxed[1].axis = "location"
       /\ level.relaxed[2].axis = "genre"
       /\ level.relaxed[3].axis = "date"
  /\ \A q \in CallsOf(calls, 4) :
       /\ q.sidoCode = StatedProvince(args)
       /\ ~Truthy(q.gugunCode)
       /\ toolName = ByLocation =>
            /\ q.startDate = Today
            /\ q.endDate = StatedEndDate(args)

\* level 2 widens the genre: trending mode with a genre, by-location mode
Level2WidensGenre ==
  toolName = ByLocation \/ (toolName = Trending /\ Truthy(args.genreCode))

HasGenreEntry(relaxed) ==
  \E i \in 1..Len(relaxed) : relaxed[i].axis = "genre"

\* C23: where level 2 widens the genre it calls the requested genre, then
\* exactly one related genre, returns the merged events without a repeated
\* id, and logs the genre entry only when a related genre was queried.
C23_Level2RelatedGenre ==
  (level.n = 2 /\ Level2WidensGenre) =>
    LET genres == GenresCalled(calls, 2)
    IN /\ Len(genres) = 2
       /\ genres[1] = args.genreCode
       /\ genres[2] # genres[1]
       /\ Cardinality(IdsOf(level.events)) = Len(level.events)
       /\ HasGenreEntry(level.relaxed) => Len(genres) > 1

\* an entry that records that the genre filter was dropped
HasGenreDropEntry(relaxed) ==
  \E i \in 1..Len(relaxed) :
    relaxed[i].axis = "genre" /\ relaxed[i].to \in {"dropped", "all"}

\* C24: in trending mode with the genre code ZZZZ, which the similarity map
\* does not know, and no event at level 1, the level-2 call carries no
\* genre filter and the level-2 log records that the genre was dropped.
C24_UnknownGenreDropped ==
  [][(/\ pc = "L2" /\ toolName = Trending /\ args.genreCode = Str("ZZZZ")
      /\ level.n = 1 /\ level.events = <<>>
      /\ calls' # calls)
     => /\ ~Truthy(calls'[Len(calls')].q.genreCode)
        /\ level'.n = 2 => HasGenreDropEntry(level'.relaxed)]_vars

TrendingWithoutGenre(v) == v.tool = Trending /\ ~Truthy(v.args.genreCode)

\* C25: a trending search without genre filter repeats its level-1 call as
\* its level-2 and as its level-3 call; level 2 logs nothing and level 3
\* the date-window note alone; against an upstream that answers equal
\* calls equally it ends at level 1, level 4 or level 0.
C25_NoGenreRepeatsLevel1 ==
  \A p \in DOMAIN inv :
    TrendingWithoutGenre(inv[p]) =>
      LET v == inv[p]
      IN /\ \A i \in 1..Len(v.calls) :
              v.calls[i].level \in {2, 3} => v.calls[i].q = v.calls[1].q
         /\ \A n \in 1..3 : Cardinality(CallsOf(v.calls, n)) <= 1
         /\ v.level.n = 2 => v.level.relaxed = <<>>
         /\ v.level.n = 3 =>
              /\ Len(v.level.relaxed) = 1
              /\ v.level.relaxed[1].axis = "date"
         /\ v.pc = "done" => v.result.level \in {0, 1, 4}

\* such a search passed levels 2 and 3 and returned the events of level 4
C25_Witness ==
  /\ Len(inv) = 2
  /\ TrendingWithoutGenre(inv[1])
  /\ inv[1].pc = "done"
  /\ inv[1].result.level = 4
  /\ inv[1].result.events # <<>>
  /\ \A n \in 1..4 : CallsOf(inv[1].calls, n) # {}

\* C26: in free-event and trending mode no call of levels 1 to 4 carries a
\* start or end date, and two requests that differ in startDate and endDate
\* only issue the same calls in the same order; the dates show in the log
\* alone.
C26_DatesStayLocal ==
  /\ \A p \in DOMAIN inv :
       inv[p].tool \in {FreeEvents, Trending} =>
         \A i \in 1..Len(inv[p].calls) :
           /\ inv[p].calls[i].q.startDate = Undef
           /\ inv[p].calls[i].q.endDate = Undef
  /\ (/\ Len(inv) = 2
      /\ inv[1].tool = inv[2].tool
      /\ inv[1].tool \in {FreeEvents, Trending}
      /\ [inv[1].args EXCEPT !.startDate = Undef, !.endDate = Undef]
           = [inv[2].args EXCEPT !.startDate = Undef, !.endDate = Undef]
      /\ Finished(inv[1]) /\ Finished(inv[2]))
     => inv[1].calls = inv[2].calls

\* two requests with different dates went through all four levels with the
\* same calls and returned logs that name different date windows
C26_Witness ==
  /\ Len(inv) = 2
  /\ inv[1].args.endDate # inv[2].args.endDate
  /\ inv[1].pc = "done" /\ inv[2].pc = "done"
  /\ inv[1].result.level = 4 /\ inv[2].result.level = 4
  /\ inv[1].result.relaxedConditions # inv[2].result.relaxedConditions
  /\ inv[1].calls = inv[2].calls
  /\ \A n \in 1..4 : CallsOf(inv[1].calls, n) # {}

\* how far search() has come
PcRank(p) ==
  CASE p = "start" -> 0
    [] p = "L1" -> 1
    [] p = "L2" -> 2
    [] p = "L3" -> 3
    [] p = "L4" -> 4
    [] OTHER -> 5

\* the number of calls level n has issued
CallCount(log, n) == Len(GenresCalled(log, n))

\* most calls the engine issues at level n
CallBound(n) == IF n = 1 THEN 1 ELSE IF n \in {2, 3} THEN 2 ELSE Len(GENRE_CODES)

\* the steps search() has left at most: the levels ahead, ten steps each,
\* and the calls the running level has left
StepsLeft == (5 - PcRank(pc)) * (Len(GENRE_CODES) + 1) + (Len(GENRE_CODES) - gi)

\* C27: search() finishes when every upstream call returns or fails: each
\* return or failure of a call takes it strictly closer to its end; it
\* passes the levels once and in order, issues no call of a level twice,
\* none after a call of levels 1 to 3 failed, and at most 1, 2, 2 and one
\* call per known genre at levels 1 to 4.
C27_Terminates ==
  /\ [][StepsLeft' < StepsLeft /\ StepsLeft' >= 0]_vars
  /\ [][PcRank(pc') >= PcRank(pc)]_vars
  /\ [][(pc \in {"done", "thrown"}) => (calls' = calls)]_vars
  /\ [][(calls' # calls /\ calls # <<>>) =>
          calls'[Len(calls')].level >= calls[Len(calls)].level]_vars
  /\ [](\A n \in 1..4 : CallCount(calls, n) <= CallBound(n))
  /\ [](\A i, j \in 1..Len(calls) :
          (calls[i].level = calls[j].level /\ i # j)
            => calls[i].q # calls[j].q)

\* a search went through all levels, with a failed level-4 call, and ended
\* after 1, 2, 2 and 9 calls
C27_Witness ==
  /\ pc = "done"
  /\ l4failed # {}
  /\ CallCount(calls, 1) = 1 /\ CallCount(calls, 2) = 2
  /\ CallCount(calls, 3) = 2 /\ CallCount(calls, 4) = Len(GENRE_CODES)

\* C28: a result of level 2, 3 or 4 names at least one relaxed condition and
\* a result of level 1 names none, whatever the upstream answers
C28_RelaxedMatchesLevel ==
  pc = "done" =>
    /\ result.level \in 2..4 => result.relaxedConditions # <<>>
    /\ result.level = 1 => result.relaxedConditions = <<>>

\* the largest number of events the caller asked for: min(max(limit,1),50),
\* the limit being 20 when the caller names none
StatedFilterLimit(limit) ==
  LET l == IF limit.k = "undefined" THEN 20 ELSE limit.v
  IN Min(Max(l, 1), 50)

FreeBeforePaid(events) ==
  \A i, j \in 1..Len(events) :
    (i < j /\ isFreeEvent(events[j])) => isFreeEvent(events[i])

\* C30: filterFreeEvents returns at most min(max(limit,1),50) events, every
\* free event before any paid one, and counts that are not negative and add
\* up to the number of events returned
C30_FreeFilterShape ==
  (toolName = FreeEvents /\ pc = "done") =>
    /\ Len(result.events) <= StatedFilterLimit(args.limit)
    /\ FreeBeforePaid(result.events)
    /\ result.freeCount >= 0
    /\ result.paidCount >= 0
    /\ result.freeCount + result.paidCount = Len(result.events)

\* C29: a result of level 1..4 lists, index by index, the events of its
\* scores, best total first, and its message states their number; a result
\* of level 0 has no scores and lists the events of level 4 as the fan-out
\* collected them
C29_EventsFollowScores ==
  pc = "done" =>
    /\ result.level \in 1..4 =>
         /\ Len(result.events) = Len(result.scores)
         /\ \A i \in 1..Len(result.scores) :
              result.events[i] = result.scores[i].event
         /\ \A i, j \in 1..Len(result.scores) :
              i < j =>
                result.scores[i].totalScore10 >= result.scores[j].totalScore10
         /\ result.message.count = Len(result.events)
    /\ result.level = 0 =>
         /\ result.scores = <<>>
         /\ level.n = 4
         /\ result.events = level.events

\* two events came back ranked, in the reverse of the order they were fetched
C29_Witness ==
  /\ pc = "done"
  /\ result.level \in 1..4
  /\ Len(level.events) = 2
  /\ Len(result.events) = 2
  /\ result.events[1] = level.events[2]
  /\ result.scores[1].totalScore10 > result.scores[2].totalScore10

StageIndex(scope) == CHOOSE i \in 1..3 : Stages[i] = scope

\* C17: searchEventsByLocation asks the district first whenever a district
\* code is given, widens only after an empty result and only in the order
\* district, province, nationwide, skipping no scope whose code is given,
\* and returns the events and the scope name of the last query.
C17_WidensInOrder ==
  LET f == loc.fetches
  IN /\ (Truthy(loc.params.gugunCode) /\ Len(f) >= 1) =>
          /\ f[1].q.scope = "gugun"
          /\ f[1].q.signguCode = loc.params.gugunCode
     /\ \A i \in 2..Len(f) :
          /\ StageIndex(f[i].q.scope) > StageIndex(f[i - 1].q.scope)
          /\ ~f[i - 1].failed /\ f[i - 1].results = <<>>
     /\ \A i \in 1..Len(f) :
          (f[i].q.scope = "nationwide" /\ Truthy(loc.params.sidoCode)) =>
            (i > 1 /\ f[i - 1].q.scope = "sido")
     /\ loc.pc = "done" =>
          /\ loc.out.searchLevel = f[Len(f)].q.scope
          /\ loc.out.events = f[Len(f)].results

\* C16: every upstream call made for a request uses the API key of that
\* request's own kopis_api_key header, whatever other requests are in
\* flight.
C16_OwnApiKey ==
  \A r \in 1..Len(posts) :
    \A i \in 1..Len(posts[r].used) : posts[r].used[i] = RequestKeys[r]

RECURSIVE runAlone(_, _)
runAlone(v, w) ==
  IF Finished(v) THEN v ELSE runAlone(stepInvocation(<<v>>, 1, w), w)

\* C15: however two invocations interleave, each ends as it ends when run
\* alone against the same upstream answers.
C15_NoInterference ==
  \A p \in DOMAIN inv :
    Finished(inv[p]) =>
      LET alone == runAlone(newInvocation(inv[p].tool, inv[p].args), world)
      IN /\ inv[p].result = alone.result
         /\ inv[p].err = alone.err
         /\ inv[p].pc = alone.pc

\* two different requests overlapped and each returned its own events
C15_Witness ==
  /\ Len(inv) = 2
  /\ inv[1].args # inv[2].args
  /\ inv[1].overlapped /\ inv[2].overlapped
  /\ inv[1].pc = "done" /\ inv[2].pc = "done"
  /\ inv[1].level.n >= 2 /\ inv[2].level.n >= 2
  /\ inv[1].result.events # <<>>
  /\ inv[1].result.events # inv[2].result.events

====
